---- MODULE Spec2Model ----
(***************************************************************************)
(* ipenum.py: enumerate and print the addresses of IP ranges.              *)
(*                                                                         *)
(* A range expression is modelled as a sequence of lexemes: an address     *)
(* literal, a text that is no address, a separator, white space, a zone    *)
(* suffix, a slash, a decimal number, a bracket.  Address widths are       *)
(* scaled: V4Bits stands for the 32 bits of IPv4, V6Bits for the 128 bits  *)
(* of IPv6, so that prefix length 31 is V4Bits - 1, 127 is V6Bits - 1.     *)
(***************************************************************************)
EXTENDS Integers, Sequences, FiniteSets, TLC

V4Bits == 3

V6Bits == 4

MaxBatch == 2

VARIABLES RANGES, hosts_only, idx, pc, EXIT_CODE, stdout, stderr,
          start, end, zone_id, address, addresses, returned,
          exc, exit_status, prev, called, net2ips

\* the variables of a run of ipenum.py; net2ips is a run of net2ips.py
ipenum_vars == <<RANGES, hosts_only, idx, pc, EXIT_CODE, stdout, stderr,
                 start, end, zone_id, address, addresses, returned,
                 exc, exit_status, prev, called>>

vars == <<ipenum_vars, net2ips>>

(***************************************************************************)
(* Lexemes                                                                 *)
(***************************************************************************)
Lx(t, ver, val) == [t |-> t, ver |-> ver, val |-> val]

Addr(ver, val) == Lx("addr", ver, val)

Bad == Lx("x", 0, 0)

Sep == Lx(",", 0, 0)

Space == Lx(" ", 0, 0)

Zone(n) == Lx("%", 0, n)

Slash == Lx("/", 0, 0)

Num(p) == Lx("num", 0, p)

Br(c) == Lx(c, 0, 0)

(***************************************************************************)
(* Addresses of the ipaddress module: a version and an integer value.      *)
(***************************************************************************)
max_prefixlen(ver) == IF ver = 4 THEN V4Bits ELSE V6Bits

ALL_ONES(ver) == 2 ^ max_prefixlen(ver) - 1

Versions == {4, 6}

Values(ver) == 0 .. ALL_ONES(ver)

IP(ver, val) == [ver |-> ver, val |-> val]

\* a name bound to None, or to a string that did not parse
NotAnAddress == IP(0, 0)

(***************************************************************************)
(* Python string operations on lexeme sequences (0-based, -1: not found)   *)
(***************************************************************************)
RECURSIVE lstrip(_)
lstrip(s) == IF s # <<>> /\ Head(s) = Space THEN lstrip(Tail(s)) ELSE s

RECURSIVE rstrip(_)
rstrip(s) ==
    IF s # <<>> /\ s[Len(s)] = Space THEN rstrip(SubSeq(s, 1, Len(s) - 1)) ELSE s

strip(s) == rstrip(lstrip(s))

\* s.find(c): the lowest index of a lexeme of type t
find(s, t) ==
    LET hits == {i \in 1 .. Len(s) : s[i].t = t}
    IN  IF hits = {} THEN -1
        ELSE (CHOOSE i \in hits : \A j \in hits : i <= j) - 1

\* s.find(c, from): the lowest index >= from of a lexeme of type t
find_from(s, t, from) ==
    LET hits == {i \in 1 .. Len(s) : s[i].t = t /\ i - 1 >= from}
    IN  IF hits = {} THEN -1
        ELSE (CHOOSE i \in hits : \A j \in hits : i <= j) - 1

\* s.rfind(c, from): the highest index >= from of a lexeme of type t
rfind(s, t, from) ==
    LET hits == {i \in 1 .. Len(s) : s[i].t = t /\ i - 1 >= from}
    IN  IF hits = {} THEN -1
        ELSE (CHOOSE i \in hits : \A j \in hits : i >= j) - 1

\* s[from:to]
slice(s, from, to) == SubSeq(s, from + 1, to)

IsSeparator(l) == l.t \in {",", " "}

\* re.split(separators, rng) with the empty elements removed: the maximal
\* runs of lexemes that are no separators
RECURSIVE split(_, _, _)
split(rng, cur, acc) ==
    IF rng = <<>> THEN (IF cur = <<>> THEN acc ELSE Append(acc, cur))
    ELSE IF IsSeparator(Head(rng))
         THEN split(Tail(rng), <<>>, IF cur = <<>> THEN acc ELSE Append(acc, cur))
         ELSE split(Tail(rng), Append(cur, Head(rng)), acc)

(***************************************************************************)
(* ipaddress.ip_address and ipaddress.ip_network(net, strict=False)        *)
(***************************************************************************)
ip_address(tok) ==
    IF Len(tok) = 1 /\ tok[1].t = "addr"
    THEN [ok |-> TRUE, addr |-> IP(tok[1].ver, tok[1].val)]
    ELSE [ok |-> FALSE, addr |-> NotAnAddress]

\* the number of addresses of a block of prefix length p
BlockSize(ver, p) == 2 ^ (max_prefixlen(ver) - p)

\* the address as given, its host bits kept
NetworkBaseUnmasked(ver, val, p) == val

\* the address with its host bits cleared
NetworkBase(ver, val, p) == (val \div BlockSize(ver, p)) * BlockSize(ver, p)

NoNetwork == [ok |-> FALSE, ver |-> 0, network_address |-> 0,
              broadcast_address |-> -1, prefixlen |-> 0]

ip_network(net) ==
    IF /\ Len(net) = 3
       /\ net[1].t = "addr"
       /\ net[2].t = "/"
       /\ net[3].t = "num"
       /\ net[3].val <= max_prefixlen(net[1].ver)
    THEN LET ver  == net[1].ver
             p    == net[3].val
             base == NetworkBase(ver, net[1].val, p)
         IN  [ok |-> TRUE, ver |-> ver, network_address |-> base,
              broadcast_address |-> base + BlockSize(ver, p) - 1,
              prefixlen |-> p]
    ELSE IF Len(net) = 1 /\ net[1].t = "addr"
    THEN [ok |-> TRUE, ver |-> net[1].ver, network_address |-> net[1].val,
          broadcast_address |-> net[1].val,
          prefixlen |-> max_prefixlen(net[1].ver)]
    ELSE NoNetwork

\* iter(network): every address from the network to the broadcast address
NetworkIter(n) == [ver |-> n.ver, lo |-> n.network_address,
                   hi |-> n.broadcast_address]

\* hosts() without the special cases of the two smallest blocks
hosts_general(n) ==
    IF n.ver = 4
    THEN [ver |-> 4, lo |-> n.network_address + 1, hi |-> n.broadcast_address - 1]
    ELSE [ver |-> 6, lo |-> n.network_address + 1, hi |-> n.broadcast_address]

\* hosts() leaving out the last address of an IPv6 block too
hosts_v6_as_v4(n) ==
    IF n.prefixlen >= max_prefixlen(n.ver) - 1
    THEN NetworkIter(n)
    ELSE [ver |-> n.ver, lo |-> n.network_address + 1,
          hi |-> n.broadcast_address - 1]

\* hosts() with the special case of the single-address block only
hosts_single_only(n) ==
    IF n.prefixlen >= max_prefixlen(n.ver)
    THEN NetworkIter(n)
    ELSE IF n.ver = 4
         THEN [ver |-> 4, lo |-> n.network_address + 1,
               hi |-> n.broadcast_address - 1]
         ELSE [ver |-> 6, lo |-> n.network_address + 1,
               hi |-> n.broadcast_address]

\* network.hosts()
hosts(n) ==
    IF n.prefixlen >= max_prefixlen(n.ver) - 1
    THEN NetworkIter(n)
    ELSE IF n.ver = 4
         THEN [ver |-> 4, lo |-> n.network_address + 1,
               hi |-> n.broadcast_address - 1]
         ELSE [ver |-> 6, lo |-> n.network_address + 1,
               hi |-> n.broadcast_address]

NoAddresses == [ver |-> 0, lo |-> 0, hi |-> -1]

(***************************************************************************)
(* parse_start_end: a record of the returned tuple (start, end, zone_id,   *)
(* is_ok) and of the lines written with err(), in order.  is_ok is "None", *)
(* "True" or "False"; a start or end that is None or an unparsed string is *)
(* NotAnAddress.                                                           *)
(***************************************************************************)
Msg(cond, text) == IF cond THEN <<text>> ELSE <<>>

HasZone(tok) == find(tok, "%") # -1

\* tok[pos_perc:], the zone of a token, '' without one
ZoneOf(tok) ==
    IF HasZone(tok) THEN slice(tok, find(tok, "%"), Len(tok)) ELSE <<>>

\* tok[:pos_perc], the token without its zone
StripZone(tok) ==
    IF HasZone(tok) THEN slice(tok, 0, find(tok, "%")) ELSE tok

\* the end address not tried once the start address did not parse
check_start_end_first_only(s, e, zone, one_sided, differ) ==
    [start   |-> s.addr,
     end     |-> e.addr,
     zone_id |-> zone,
     is_ok   |-> IF /\ ~one_sided /\ ~differ /\ s.ok /\ e.ok
                    /\ s.addr.ver = e.addr.ver
                    /\ (zone # <<>> => s.addr.ver = 6)
                 THEN "True" ELSE "False",
     err     |-> Msg(one_sided, "inconsistent zone ID specification")
                 \o Msg(differ, "zone ID of start and end address must be the same")
                 \o Msg(~s.ok, "cannot parse start address")
                 \o Msg(s.ok /\ ~e.ok, "cannot parse end address")
                 \o Msg(~one_sided /\ ~differ /\ s.ok /\ e.ok
                        /\ s.addr.ver # e.addr.ver,
                        "start and end addresses must be of same IP version")
                 \o Msg(~one_sided /\ ~differ /\ s.ok /\ e.ok
                        /\ s.addr.ver = e.addr.ver /\ zone # <<>>
                        /\ s.addr.ver # 6,
                        "zone ID supported with IPv6 only")]

\* the checks on two parsed tokens, s and e the results of ip_address
check_start_end(s, e, zone, one_sided, differ) ==
    LET ok1      == ~one_sided /\ ~differ /\ s.ok /\ e.ok
        mismatch == ok1 /\ s.addr.ver # e.addr.ver
        v4zone   == ok1 /\ s.addr.ver = e.addr.ver /\ zone # <<>>
                    /\ s.addr.ver # 6
    IN  [start   |-> s.addr,
         end     |-> e.addr,
         zone_id |-> zone,
         is_ok   |-> IF ok1 /\ ~mismatch /\ ~v4zone THEN "True" ELSE "False",
         err     |-> Msg(one_sided, "inconsistent zone ID specification")
                     \o Msg(differ, "zone ID of start and end address must be the same")
                     \o Msg(~s.ok, "cannot parse start address")
                     \o Msg(~e.ok, "cannot parse end address")
                     \o Msg(mismatch, "start and end addresses must be of same IP version")
                     \o Msg(v4zone, "zone ID supported with IPv6 only")]

\* the two tokens, start0 and end0, of a range
parse_tokens(start0, end0) ==
    check_start_end(ip_address(StripZone(start0)), ip_address(StripZone(end0)),
                    IF ZoneOf(start0) # ZoneOf(end0) THEN <<>> ELSE ZoneOf(start0),
                    HasZone(start0) # HasZone(end0),
                    ZoneOf(start0) # ZoneOf(end0))

\* without the check for more than two addresses
parse_split_no_count_check(tmp) ==
    IF Len(tmp) < 1
    THEN [start |-> NotAnAddress, end |-> NotAnAddress, zone_id |-> <<>>,
          is_ok |-> "None", err |-> <<"found no addresses">>]
    ELSE parse_tokens(tmp[1], tmp[Len(tmp)])

parse_split(tmp) ==
    IF Len(tmp) < 1
    THEN [start |-> NotAnAddress, end |-> NotAnAddress, zone_id |-> <<>>,
          is_ok |-> "None", err |-> <<"found no addresses">>]
    ELSE IF Len(tmp) > 2
    THEN [start |-> NotAnAddress, end |-> NotAnAddress, zone_id |-> <<>>,
          is_ok |-> "False", err |-> <<"found more than two addresses">>]
    ELSE parse_tokens(tmp[1], IF Len(tmp) = 1 THEN tmp[1] ELSE tmp[2])

parse_start_end(rng) == parse_split(split(rng, <<>>, <<>>))

(***************************************************************************)
(* parse_interval: the returned tuple and its length n (3 when the         *)
(* interior did not parse: (start, end, is_ok), else 4), the err() lines,  *)
(* and the exception raised by start += 1 or end -= 1, "" when none.       *)
(***************************************************************************)
\* only the parenthesis taken as an exclusive start
ExclusiveStartParenOnly(interval) == interval[1].t = "("

ExclusiveStart(interval) == interval[1].t \in {"(", "]"}

\* only the parenthesis taken as an exclusive end
ExclusiveEndParenOnly(interval) == interval[Len(interval)].t = ")"

ExclusiveEnd(interval) == interval[Len(interval)].t \in {")", "["}

\* start += 1 and end -= 1 on the parsed tuple r
adjust(r, incr, decr) ==
    IF incr /\ r.start.val + 1 > ALL_ONES(r.start.ver)
    THEN [n |-> 4, start |-> r.start, end |-> r.end, zone_id |-> r.zone_id,
          is_ok |-> r.is_ok, err |-> r.err, raised |-> "AddressValueError"]
    ELSE IF decr /\ r.end.val - 1 < 0
    THEN [n |-> 4, start |-> IP(r.start.ver, r.start.val + (IF incr THEN 1 ELSE 0)),
          end |-> r.end, zone_id |-> r.zone_id,
          is_ok |-> r.is_ok, err |-> r.err, raised |-> "AddressValueError"]
    ELSE [n |-> 4, start |-> IP(r.start.ver, r.start.val + (IF incr THEN 1 ELSE 0)),
          end |-> IP(r.end.ver, r.end.val - (IF decr THEN 1 ELSE 0)),
          zone_id |-> r.zone_id,
          is_ok |-> r.is_ok, err |-> r.err, raised |-> ""]

interval_result(r, incr, decr) ==
    IF r.is_ok # "True"
    THEN [n |-> 3, start |-> r.start, end |-> r.end, zone_id |-> <<>>,
          is_ok |-> r.is_ok, err |-> r.err, raised |-> ""]
    ELSE adjust(r, incr, decr)

parse_interval(interval) ==
    interval_result(parse_start_end(strip(slice(interval, 1, Len(interval) - 1))),
                    ExclusiveStart(interval), ExclusiveEnd(interval))

(***************************************************************************)
(* print_cidr up to its loop: the return code of the early returns (-1     *)
(* when the loop is entered), the err() line, the zone and the iterator.   *)
(***************************************************************************)
\* net.find('%') > -1 and net.rfind('/', pos_perc) > -1
ZoneExcised(arg) == HasZone(arg) /\ rfind(arg, "/", find(arg, "%")) # -1

\* net[pos_perc:pos_slash]
CidrZone(arg) ==
    IF ZoneExcised(arg)
    THEN slice(arg, find(arg, "%"), rfind(arg, "/", find(arg, "%")))
    ELSE <<>>

\* net[:pos_perc] + net[pos_slash:]
CidrNet(arg) ==
    IF ZoneExcised(arg)
    THEN slice(arg, 0, find(arg, "%"))
         \o slice(arg, rfind(arg, "/", find(arg, "%")), Len(arg))
    ELSE arg

cidr_result(network, zone, zone_error, h) ==
    IF zone_error
    THEN [ret |-> 1, err |-> <<"cannot parse CIDR with zone index">>,
          zone_id |-> <<>>, addresses |-> NoAddresses]
    ELSE IF ~network.ok
    THEN [ret |-> 1, err |-> <<"cannot parse CIDR">>,
          zone_id |-> zone, addresses |-> NoAddresses]
    ELSE IF zone # <<>> /\ network.ver # 6
    THEN [ret |-> 1, err |-> <<"zone ID supported with IPv6 only">>,
          zone_id |-> zone, addresses |-> NoAddresses]
    ELSE [ret |-> -1, err |-> <<>>, zone_id |-> zone,
          addresses |-> IF h THEN hosts(network) ELSE NetworkIter(network)]

parse_cidr(arg, h) ==
    cidr_result(ip_network(CidrNet(arg)), CidrZone(arg),
                HasZone(arg) /\ ~ZoneExcised(arg), h)

(***************************************************************************)
(* The expressions the runs are given                                      *)
(***************************************************************************)
AddrsOf(ver) == {Addr(ver, val) : val \in Values(ver)}

AddrLex == AddrsOf(4) \cup AddrsOf(6)

Opening == {"[", "(", "]"}

Closing == {"]", ")", "["}

Bracketed(o, x, c) == <<Br(o)>> \o x \o <<Br(c)>>

\* start SEP end, both of one version
BareRanges == {<<a, Sep, b>> : a, b \in AddrsOf(4)}
              \cup {<<a, Sep, b>> : a, b \in AddrsOf(6)}

Singles == {<<a>> : a \in AddrLex}

Intervals == {Bracketed(o, x, c) : o \in Opening, x \in BareRanges, c \in Closing}

Low4 == Addr(4, 1)

Top4 == Addr(4, ALL_ONES(4))

Low6 == Addr(6, ALL_ONES(6) - 2)

Top6 == Addr(6, ALL_ONES(6))

\* interiors that fail, one or more of each kind of failure
FailingInteriors ==
    { <<>>, <<Sep>>,
      <<Low4, Sep, Low4, Sep, Top4>>,
      <<Bad>>, <<Bad, Sep, Low4>>, <<Low4, Sep, Bad>>, <<Bad, Sep, Bad>>,
      <<Low4, Sep, Low6>>, <<Low6, Sep, Low4>>,
      <<Low6, Zone(1), Sep, Top6>>, <<Low6, Sep, Top6, Zone(1)>>,
      <<Low6, Zone(1), Sep, Top6, Zone(2)>>,
      <<Low4, Zone(1), Sep, Top4, Zone(1)>>, <<Low4, Zone(1)>> }

\* interiors with a zone, white space or a single address that parse
OtherInteriors ==
    { <<Low6, Zone(1), Sep, Low6, Zone(1)>>,
      <<Low6, Zone(1), Sep, Top6, Zone(1)>>,
      <<Low6, Zone(2)>>,
      <<Space, Low4, Space, Top4, Space>>,
      <<Low4, Space, Sep, Space, Low4>>,
      <<Low4>>, <<Top6>> }

SpecialInteriors == FailingInteriors \cup OtherInteriors

Cidrs ==
    {<<a, Slash, Num(p)>> : a \in AddrsOf(4), p \in 0 .. V4Bits + 1}
    \cup {<<a, Slash, Num(p)>> : a \in AddrsOf(6), p \in 0 .. V6Bits + 1}

ZonedCidrs == {<<x[1], Zone(1), Slash, x[3]>> : x \in Cidrs}

OtherCidrs ==
    { <<Bad, Slash, Num(0)>>,
      <<Low6, Slash, Num(V6Bits - 1), Zone(1)>>,
      <<Low6, Zone(1), Slash, Bad, Slash, Num(V6Bits - 1)>>,
      <<Low6, Zone(1), Zone(2), Slash, Num(V6Bits - 1)>>,
      <<Low6, Slash, Bad>>,
      <<Space, Low4, Slash, Num(V4Bits - 1), Space>> }
    \cup {Bracketed(o, <<Low4, Slash, Num(V4Bits - 1)>>, c) :
             o \in Opening, c \in Closing}

\* an expression of one character
SingleBrackets == {<<Br(c)>> : c \in Opening \cup Closing}

Expressions ==
    BareRanges \cup Singles \cup Intervals \cup SpecialInteriors
    \cup SingleBrackets
    \cup {Bracketed(o, x, c) : o \in Opening, x \in SpecialInteriors, c \in Closing}
    \cup Cidrs \cup ZonedCidrs \cup OtherCidrs

\* the expressions of the longer batches: every kind of failure in every
\* form, and expressions that succeed
Representatives ==
    { <<Low4, Sep, Top4>>, <<Top4, Sep, Low4>>,
      Bracketed("(", <<Low6, Sep, Top6>>, ")"),
      <<Low4, Slash, Num(V4Bits - 1)>>,
      <<Low6, Zone(1), Slash, Num(V6Bits - 1)>>,
      <<>>, <<Low4, Sep, Low4, Sep, Top4>>, <<Bad>>, <<Low4, Sep, Low6>>,
      <<Low6, Zone(1), Sep, Top6>>, <<Low4, Zone(1)>>,
      Bracketed("[", <<Bad>>, "]"),
      <<Bad, Slash, Num(0)>>, <<Low4, Zone(1), Slash, Num(V4Bits)>>,
      <<Low6, Slash, Num(V6Bits - 1), Zone(1)>> }

RECURSIVE SeqsOfLen(_, _)
SeqsOfLen(S, n) ==
    IF n = 0 THEN {<<>>}
    ELSE {<<x>> \o t : x \in S, t \in SeqsOfLen(S, n - 1)}

Batches ==
    {<<x>> : x \in Expressions}
    \cup UNION {SeqsOfLen(Representatives, n) : n \in 2 .. MaxBatch}

(***************************************************************************)
(* A second run of the program, on arguments related to those of the first *)
(* run: the other setting of --hosts-only, the same interval written with  *)
(* parentheses instead of reversed brackets, or the bare range over the    *)
(* interval's inclusive bounds.                                            *)
(***************************************************************************)
ParenForm(x) ==
    IF Len(x) < 2 THEN x
    ELSE [i \in 1 .. Len(x) |->
            IF i = 1 /\ x[i].t = "]" THEN Br("(")
            ELSE IF i = Len(x) /\ x[i].t = "[" THEN Br(")")
            ELSE x[i]]

BareForms(x) ==
    IF /\ Len(x) = 5
       /\ x[1].t \in Opening /\ x[5].t \in Closing
       /\ x[2].t = "addr" /\ x[3].t = "," /\ x[4].t = "addr"
       /\ x[2].ver = x[4].ver
    THEN LET a == x[2].val + (IF x[1].t = "[" THEN 0 ELSE 1)
             b == x[4].val - (IF x[5].t = "]" THEN 0 ELSE 1)
         IN  IF a \in Values(x[2].ver) /\ b \in Values(x[2].ver)
             THEN {<<Addr(x[2].ver, a), Sep, Addr(x[2].ver, b)>>}
             ELSE {}
    ELSE IF /\ Len(x) = 7
            /\ x[1].t \in Opening /\ x[7].t \in Closing
            /\ x[2].t = "addr" /\ x[3].t = "%" /\ x[4].t = ","
            /\ x[5].t = "addr" /\ x[6] = x[3]
            /\ x[2].ver = 6 /\ x[5].ver = 6
    THEN LET a == x[2].val + (IF x[1].t = "[" THEN 0 ELSE 1)
             b == x[5].val - (IF x[7].t = "]" THEN 0 ELSE 1)
         IN  IF a \in Values(x[2].ver) /\ b \in Values(x[2].ver)
             THEN {<<Addr(x[2].ver, a), x[3], Sep, Addr(x[2].ver, b), x[3]>>}
             ELSE {}
    ELSE {}

Related(R, h) ==
    {[RANGES |-> R, hosts_only |-> ~h]}
    \cup (IF Len(R) = 1
          THEN {[RANGES |-> <<x>>, hosts_only |-> h] :
                   x \in ({ParenForm(R[1])} \cup BareForms(R[1])) \ {R[1]}}
          ELSE {})

\* what a finished run has shown
Observation == [RANGES |-> RANGES, hosts_only |-> hosts_only,
                stdout |-> stdout, stderr |-> stderr,
                returned |-> returned, exc |-> exc,
                exit_status |-> exit_status]

NoRun == [RANGES |-> <<>>, hosts_only |-> FALSE, stdout |-> <<>>,
          stderr |-> <<>>, returned |-> <<>>, exc |-> "", exit_status |-> -1]

(***************************************************************************)
(* net2ips.py: print the addresses of IP networks.  The run is one record: *)
(* networks and hosts_only are the arguments, pos the number of networks   *)
(* the for loop has passed, addresses what the name addresses is bound to  *)
(* (nothing, a network, or what hosts() returned: a generator or a list),  *)
(* it the iteration of the inner for loop.                                 *)
(***************************************************************************)
\* str.isdigit()
isdigit(s) == s # <<>> /\ \A k \in 1 .. Len(s) : s[k].t = "num"

\* idx_perc > -1 and idx_cidr > -1 and net[idx_cidr + 1:].isdigit()
HasScope(net) ==
    /\ find(net, "%") > -1
    /\ rfind(net, "/", 0) > -1
    /\ isdigit(slice(net, rfind(net, "/", 0) + 1, Len(net)))

\* net[idx_perc:idx_cidr]
ScopeId(net) ==
    IF HasScope(net) THEN slice(net, find(net, "%"), rfind(net, "/", 0))
    ELSE <<>>

\* net[:idx_perc] + net[idx_cidr:]
WithoutScope(net) ==
    IF HasScope(net)
    THEN slice(net, 0, find(net, "%")) \o slice(net, rfind(net, "/", 0), Len(net))
    ELSE net

Unbound == [kind |-> "unbound", net |-> NoNetwork]

\* addresses after the try statement: the new network, or what it was
\* bound to before when ip_network raised ValueError
AfterTry(old, network) ==
    IF network.ok THEN [kind |-> "network", net |-> network] ELSE old

\* if args.hosts_only: addresses = addresses.hosts()
AfterHosts(b, h) ==
    IF ~h THEN [raised |-> "", b |-> b]
    ELSE IF b.kind = "unbound" THEN [raised |-> "NameError", b |-> b]
    ELSE IF b.kind # "network" THEN [raised |-> "AttributeError", b |-> b]
    ELSE [raised |-> "",
          b |-> [kind |-> IF b.net.prefixlen = max_prefixlen(b.net.ver)
                          THEN "list" ELSE "generator",
                 net |-> b.net]]

\* for addr in addresses
IterOf(b) ==
    IF b.kind = "unbound" THEN NoAddresses
    ELSE IF b.kind = "network" THEN NetworkIter(b.net)
    ELSE hosts(b.net)

\* the exception of one pass of the loop, "" when there is none
RaisedIn(r) ==
    IF r.raised # "" THEN r.raised
    ELSE IF r.b.kind = "unbound" THEN "NameError"
    ELSE ""

NetStart(N, h) ==
    [networks |-> N, hosts_only |-> h, pos |-> 0, pc |-> "for",
     exit_code |-> 0, scope_id |-> <<>>, addresses |-> Unbound,
     it |-> NoAddresses, stdout |-> <<>>, stderr |-> <<>>,
     exc |-> "", exit_status |-> -1]

\* the networks the runs are given: networks that parse, with and without
\* a scope, a single address, and texts ip_network refuses
Networks ==
    { <<Low4, Slash, Num(V4Bits - 1)>>,
      <<Low6, Zone(1), Slash, Num(V6Bits - 1)>>,
      <<Space, Low6, Slash, Num(V6Bits - 2), Space>>,
      <<Top4>>,
      <<Bad>>,
      <<Low4, Slash, Num(V4Bits + 1)>>,
      <<Bad, Zone(2), Slash, Num(0)>> }

NetworkBatches == UNION {SeqsOfLen(Networks, n) : n \in 1 .. MaxBatch + 1}

(***************************************************************************)
(* The program                                                             *)
(***************************************************************************)
Start(R, h) ==
    /\ RANGES = R
    /\ hosts_only = h
    /\ idx = 0
    /\ pc = "for"
    /\ EXIT_CODE = 0
    /\ stdout = <<>>
    /\ stderr = <<>>
    /\ start = NotAnAddress
    /\ end = NotAnAddress
    /\ zone_id = <<>>
    /\ address = NotAnAddress
    /\ addresses = NoAddresses
    /\ returned = <<>>
    /\ exc = ""
    /\ exit_status = -1
    /\ called = <<>>

Init ==
    /\ \E R \in Batches, h \in BOOLEAN : Start(R, h)
    /\ prev = NoRun
    /\ net2ips = NetStart(<<>>, FALSE)

\* the expressions taken from the last to the first
CurrentReversed == strip(RANGES[Len(RANGES) - idx])

\* r.strip() of the expression the for loop is at
Current == strip(RANGES[idx + 1])

\* the test for '/' made only after the test for brackets
InCidrFormUnbracketed(x) ==
    /\ find(x, "/") # -1
    /\ ~(x[1].t \in {"[", "]", "("} /\ x[Len(x)].t \in {"[", "]", ")"})

InCidrForm(x) == find(x, "/") # -1

InIntervalForm(x) ==
    /\ Len(x) > 1
    /\ x[1].t \in {"[", "]", "("}
    /\ x[Len(x)].t \in {"[", "]", ")"}

\* the lines err() writes for expression i
Errs(i, msgs) == [k \in 1 .. Len(msgs) |-> [expr |-> i, msg |-> msgs[k]]]

\* print(address) for expression i, the zone left out
LineWithoutZone(i, ver, val, zone) ==
    [expr |-> i, addr |-> IP(ver, val), zone |-> <<>>]

\* print(address, zone_id, sep='') for expression i
Line(i, ver, val, zone) == [expr |-> i, addr |-> IP(ver, val), zone |-> zone]

\* EXIT_CODE += the value print_ip_range returned
Return(code) ==
    /\ EXIT_CODE' = EXIT_CODE + code
    /\ returned' = Append(returned, code)
    /\ idx' = idx + 1
    /\ pc' = "for"
    /\ start' = NotAnAddress
    /\ end' = NotAnAddress
    /\ zone_id' = <<>>
    /\ address' = NotAnAddress
    /\ addresses' = NoAddresses
    /\ UNCHANGED <<exc, exit_status>>

\* an exception nothing catches: traceback, exit status 1
Raise(e) ==
    /\ pc' = "traceback"
    /\ exc' = e
    /\ exit_status' = 1
    /\ UNCHANGED <<EXIT_CODE, returned, idx>>

CallPrintCidr ==
    /\ pc = "for"
    /\ idx < Len(RANGES)
    /\ InCidrForm(Current)
    /\ LET c == parse_cidr(Current, hosts_only)
       IN  /\ stderr' = stderr \o Errs(idx + 1, c.err)
           /\ IF c.ret = 1
              THEN Return(1)
              ELSE /\ pc' = "print_cidr"
                   /\ zone_id' = c.zone_id
                   /\ addresses' = c.addresses
                   /\ UNCHANGED <<EXIT_CODE, returned, idx, start, end,
                                  address, exc, exit_status>>
    /\ called' = Append(called, "print_cidr")
    /\ UNCHANGED <<RANGES, hosts_only, stdout, prev, net2ips>>

\* the addresses collected and written in one piece
PrintCidrAll ==
    /\ pc = "print_cidr"
    /\ addresses.lo <= addresses.hi
    /\ stdout' = stdout \o [k \in 1 .. (addresses.hi - addresses.lo + 1) |->
                              [expr |-> idx + 1,
                               addr |-> IP(addresses.ver, addresses.lo + k - 1),
                               zone |-> zone_id]]
    /\ addresses' = [addresses EXCEPT !.lo = addresses.hi + 1]
    /\ UNCHANGED <<RANGES, hosts_only, idx, pc, EXIT_CODE, stderr, start, end,
                   zone_id, address, returned, exc, exit_status, prev, called, net2ips>>

PrintCidrAddr ==
    /\ pc = "print_cidr"
    /\ addresses.lo <= addresses.hi
    /\ stdout' = Append(stdout, Line(idx + 1, addresses.ver, addresses.lo, zone_id))
    /\ addresses' = [addresses EXCEPT !.lo = @ + 1]
    /\ UNCHANGED <<RANGES, hosts_only, idx, pc, EXIT_CODE, stderr, start, end,
                   zone_id, address, returned, exc, exit_status, prev, called, net2ips>>

ReturnPrintCidr ==
    /\ pc = "print_cidr"
    /\ addresses.lo > addresses.hi
    /\ Return(0)
    /\ UNCHANGED <<RANGES, hosts_only, stdout, stderr, prev, called, net2ips>>

CallParseInterval ==
    /\ pc = "for"
    /\ idx < Len(RANGES)
    /\ ~InCidrForm(Current)
    /\ InIntervalForm(Current)
    /\ LET p == parse_interval(Current)
       IN  /\ stderr' = stderr \o Errs(idx + 1, p.err)
           /\ IF p.n # 4
              THEN /\ Raise("ValueError")
                   /\ UNCHANGED <<start, end, zone_id, address, addresses>>
              ELSE IF p.raised # ""
              THEN /\ Raise(p.raised)
                   /\ UNCHANGED <<start, end, zone_id, address, addresses>>
              ELSE IF p.is_ok # "True"
              THEN Return(1)
              ELSE /\ pc' = "print_start_end"
                   /\ start' = p.start
                   /\ end' = p.end
                   /\ zone_id' = p.zone_id
                   /\ address' = p.start
                   /\ UNCHANGED <<EXIT_CODE, returned, idx, addresses, exc,
                                  exit_status>>
    /\ called' = Append(called, "parse_interval")
    /\ UNCHANGED <<RANGES, hosts_only, stdout, prev, net2ips>>

CallParseStartEnd ==
    /\ pc = "for"
    /\ idx < Len(RANGES)
    /\ ~InCidrForm(Current)
    /\ ~InIntervalForm(Current)
    /\ LET p == parse_start_end(Current)
       IN  /\ stderr' = stderr \o Errs(idx + 1, p.err)
           /\ IF p.is_ok # "True"
              THEN Return(1)
              ELSE /\ pc' = "print_start_end"
                   /\ start' = p.start
                   /\ end' = p.end
                   /\ zone_id' = p.zone_id
                   /\ address' = p.start
                   /\ UNCHANGED <<EXIT_CODE, returned, idx, addresses, exc,
                                  exit_status>>
    /\ called' = Append(called, "parse_start_end")
    /\ UNCHANGED <<RANGES, hosts_only, stdout, prev, net2ips>>

\* address + 1 computed modulo 2^bits
IncrementedWrapping(a) ==
    [raised |-> "", addr |-> IP(a.ver, (a.val + 1) % (ALL_ONES(a.ver) + 1))]

\* address + 1: the ipaddress module refuses a value past the last address
Incremented(a) ==
    IF a.val + 1 > ALL_ONES(a.ver)
    THEN [raised |-> "AddressValueError", addr |-> a]
    ELSE [raised |-> "", addr |-> IP(a.ver, a.val + 1)]

\* the while loop leaving out the start address under --hosts-only
PrintAddressHostsOnly ==
    /\ pc = "print_start_end"
    /\ address.ver = end.ver
    /\ address.val <= end.val
    /\ stdout' = IF hosts_only /\ address = start THEN stdout
                 ELSE Append(stdout, [expr |-> idx + 1, addr |-> address,
                                      zone |-> zone_id])
    /\ IF address.val + 1 > ALL_ONES(address.ver)
       THEN /\ pc' = "traceback"
            /\ exc' = "AddressValueError"
            /\ exit_status' = 1
            /\ UNCHANGED <<address, EXIT_CODE, returned, idx>>
       ELSE /\ address' = IP(address.ver, address.val + 1)
            /\ UNCHANGED <<pc, exc, exit_status, EXIT_CODE, returned, idx>>
    /\ UNCHANGED <<RANGES, hosts_only, stderr, start, end, zone_id, addresses,
                   prev, called, net2ips>>

\* one pass of the while loop of print_start_end
PrintAddress ==
    /\ pc = "print_start_end"
    /\ address.ver = end.ver
    /\ address.val <= end.val
    /\ stdout' = Append(stdout, Line(idx + 1, address.ver, address.val, zone_id))
    /\ LET n == Incremented(address)
       IN  IF n.raised # ""
           THEN Raise(n.raised) /\ UNCHANGED address
           ELSE /\ address' = n.addr
                /\ UNCHANGED <<pc, exc, exit_status, EXIT_CODE, returned, idx>>
    /\ UNCHANGED <<RANGES, hosts_only, stderr, start, end, zone_id, addresses,
                   prev, called, net2ips>>

ReturnPrintStartEnd ==
    /\ pc = "print_start_end"
    /\ address.ver = end.ver
    /\ address.val > end.val
    /\ Return(0)
    /\ UNCHANGED <<RANGES, hosts_only, stdout, stderr, prev, called, net2ips>>

\* the sum of the return codes, not reduced to 1
ClampOmitted(code) == code

\* if EXIT_CODE: EXIT_CODE = 1
Clamp(code) == IF code # 0 THEN 1 ELSE code

SysExit ==
    /\ pc = "for"
    /\ idx = Len(RANGES)
    /\ EXIT_CODE' = Clamp(EXIT_CODE)
    /\ exit_status' = Clamp(EXIT_CODE)
    /\ pc' = "exit"
    /\ UNCHANGED <<RANGES, hosts_only, idx, stdout, stderr, start, end, zone_id,
                   address, addresses, returned, exc, prev, called, net2ips>>

\* the program is run once more
Rerun ==
    /\ pc \in {"exit", "traceback"}
    /\ prev = NoRun
    /\ prev' = Observation
    /\ \E a \in Related(RANGES, hosts_only) :
          /\ RANGES' = a.RANGES
          /\ hosts_only' = a.hosts_only
    /\ idx' = 0
    /\ pc' = "for"
    /\ EXIT_CODE' = 0
    /\ stdout' = <<>>
    /\ stderr' = <<>>
    /\ start' = NotAnAddress
    /\ end' = NotAnAddress
    /\ zone_id' = <<>>
    /\ address' = NotAnAddress
    /\ addresses' = NoAddresses
    /\ returned' = <<>>
    /\ exc' = ""
    /\ exit_status' = -1
    /\ called' = <<>>
    /\ UNCHANGED net2ips

Next ==
    \/ CallPrintCidr
    \/ PrintCidrAddr
    \/ ReturnPrintCidr
    \/ CallParseInterval
    \/ CallParseStartEnd
    \/ PrintAddress
    \/ ReturnPrintStartEnd
    \/ SysExit
    \/ Rerun

Spec == Init /\ [][Next]_vars

(***************************************************************************)
(* net2ips.py, the program                                                 *)
(***************************************************************************)
InitNet2ips ==
    /\ Start(<<>>, FALSE)
    /\ prev = NoRun
    /\ \E N \in NetworkBatches, h \in BOOLEAN : net2ips = NetStart(N, h)

\* one pass of the for loop up to the inner loop: strip, scope, try,
\* except, hosts
TryNetwork ==
    /\ net2ips.pc = "for"
    /\ net2ips.pos < Len(net2ips.networks)
    /\ LET net     == strip(net2ips.networks[net2ips.pos + 1])
           network == ip_network(WithoutScope(net))
           r       == AfterHosts(AfterTry(net2ips.addresses, network),
                                 net2ips.hosts_only)
       IN  net2ips' =
             [net2ips EXCEPT
                !.scope_id = ScopeId(net),
                !.exit_code = IF network.ok THEN @ ELSE 1,
                !.stderr = IF network.ok THEN @
                           ELSE Append(@, [net |-> net2ips.pos + 1,
                                           msg |-> "ValueError"]),
                !.addresses = r.b,
                !.it = IF RaisedIn(r) # "" THEN @ ELSE IterOf(r.b),
                !.exc = RaisedIn(r),
                !.exit_status = IF RaisedIn(r) # "" THEN 1 ELSE @,
                !.pc = IF RaisedIn(r) # "" THEN "traceback" ELSE "print"]
    /\ UNCHANGED ipenum_vars

\* print(str(addr) + scope_id)
PrintNetworkAddr ==
    /\ net2ips.pc = "print"
    /\ net2ips.it.lo <= net2ips.it.hi
    /\ net2ips' =
         [net2ips EXCEPT
            !.stdout = Append(@, [net |-> net2ips.pos + 1,
                                  addr |-> IP(net2ips.it.ver, net2ips.it.lo),
                                  zone |-> net2ips.scope_id]),
            !.it = [@ EXCEPT !.lo = @ + 1]]
    /\ UNCHANGED ipenum_vars

\* the inner loop is done: the next network
NextNetwork ==
    /\ net2ips.pc = "print"
    /\ net2ips.it.lo > net2ips.it.hi
    /\ net2ips' = [net2ips EXCEPT !.pc = "for", !.pos = @ + 1]
    /\ UNCHANGED ipenum_vars

\* sys.exit(exit_code)
ExitNet2ips ==
    /\ net2ips.pc = "for"
    /\ net2ips.pos = Len(net2ips.networks)
    /\ net2ips' = [net2ips EXCEPT !.pc = "exit", !.exit_status = net2ips.exit_code]
    /\ UNCHANGED ipenum_vars

NextNet2ips ==
    \/ TryNetwork
    \/ PrintNetworkAddr
    \/ NextNetwork
    \/ ExitNet2ips

SpecNet2ips == InitNet2ips /\ [][NextNet2ips]_vars

(***************************************************************************)
(* What the claims speak of                                                *)
(***************************************************************************)
\* the lines written to standard output for expression i
Segment(i) == LET Mine(l) == l.expr = i IN SelectSeq(stdout, Mine)

\* the lines written to standard error for expression i
ErrLines(i) == LET Mine(l) == l.expr = i IN SelectSeq(stderr, Mine)

\* the addresses lo, lo + 1, ..., hi of one version as lines of expression i
Ascending(i, ver, lo, hi, zone) ==
    IF hi < lo THEN <<>>
    ELSE [k \in 1 .. (hi - lo + 1) |-> Line(i, ver, lo + k - 1, zone)]

\* the run was stopped by an exception while it was at expression i
StoppedAt(i) == pc = "traceback" /\ idx + 1 = i

Terminated == pc \in {"exit", "traceback"}

\* start SEP end with two addresses of one version
IsBareRange(x) ==
    /\ Len(x) = 3
    /\ x[1].t = "addr" /\ x[2].t = "," /\ x[3].t = "addr"
    /\ x[1].ver = x[3].ver

\* a bracketed start SEP end with two addresses of one version
IsPlainInterval(x) ==
    /\ Len(x) = 5
    /\ x[1].t \in Opening /\ x[5].t \in Closing
    /\ IsBareRange(SubSeq(x, 2, 4))

\* the inclusive bounds an expression denotes, as integers
Lower(x) ==
    IF IsBareRange(x) THEN x[1].val
    ELSE x[2].val + (IF x[1].t = "[" THEN 0 ELSE 1)

Upper(x) ==
    IF IsBareRange(x) THEN x[3].val
    ELSE x[4].val - (IF x[5].t = "]" THEN 0 ELSE 1)

\* ADDR/PREFIX or ADDR%ZONE/PREFIX that ip_network accepts for its version
IsValidCidr(x) ==
    \/ /\ Len(x) = 3
       /\ x[1].t = "addr" /\ x[2].t = "/" /\ x[3].t = "num"
       /\ x[3].val <= (IF x[1].ver = 4 THEN V4Bits ELSE V6Bits)
    \/ /\ Len(x) = 4
       /\ x[1].t = "addr" /\ x[1].ver = 6 /\ x[2].t = "%"
       /\ x[3].t = "/" /\ x[4].t = "num"
       /\ x[4].val <= V6Bits

CidrVersion(x) == x[1].ver

CidrPrefix(x) == x[Len(x)].val

CidrBits(x) == IF x[1].ver = 4 THEN V4Bits ELSE V6Bits

\* the number of addresses 2^(bits(v) - p) of the block
CidrCount(x) == 2 ^ (CidrBits(x) - CidrPrefix(x))

\* the address with its low bits(v) - p bits cleared
CidrBase(x) == x[1].val - (x[1].val % CidrCount(x))

CidrZoneText(x) == IF Len(x) = 4 THEN <<x[2]>> ELSE <<>>

\* the two runs were given the same single expression and differ in
\* --hosts-only; Unfiltered and Filtered are their outputs
HostsOnlyPair ==
    /\ prev # NoRun
    /\ Terminated
    /\ Len(RANGES) = 1
    /\ prev.RANGES = RANGES
    /\ prev.hosts_only # hosts_only

Unfiltered == IF hosts_only THEN prev.stdout ELSE stdout

Filtered == IF hosts_only THEN stdout ELSE prev.stdout

BothSucceeded ==
    /\ pc = "exit" /\ exit_status = 0 /\ returned = <<0>>
    /\ prev.exc = "" /\ prev.exit_status = 0 /\ prev.returned = <<0>>

\* C1: a per-expression failure is reported, aborts only that expression
\* (nothing of it is printed, it returns 1), and does not stop the batch:
\* the run is never ended by an exception at an expression for which an
\* error was reported.
C1_FailureIsLocal ==
    \A i \in 1 .. Len(RANGES) :
        ErrLines(i) # <<>> =>
            /\ ~StoppedAt(i)
            /\ Segment(i) = <<>>
            /\ (i <= Len(returned) => returned[i] = 1)

\* C2: when the run has ended, the exit status is 0 if every expression of
\* the batch returned 0 and 1 otherwise; it is no other value.
C2_ExitStatus ==
    Terminated =>
        exit_status =
            IF /\ Len(returned) = Len(RANGES)
               /\ \A i \in 1 .. Len(returned) : returned[i] = 0
            THEN 0 ELSE 1

C2_Witness ==
    /\ pc = "exit"
    /\ Len(returned) = 2
    /\ returned[1] = 1
    /\ returned[2] = 1
    /\ exit_status = 1

\* C3: print_start_end prints exactly start, start + 1, ..., end in
\* ascending order and then returns 0, for every pair of addresses of one
\* version: while it runs it has printed start .. address - 1, and it is
\* never ended by an exception.
C3_PrintStartEndEnumerates ==
    address.ver # 0 =>
        /\ pc # "traceback"
        /\ Segment(idx + 1)
             = Ascending(idx + 1, start.ver, start.val, address.val - 1, zone_id)

\* C4: a bare or bracketed range whose start is greater than its end, as
\* written or after the adjustment of the interval bounds, prints nothing,
\* reports no error and returns 0.
C4_EmptyRangeSucceeds ==
    \A i \in 1 .. Len(RANGES) :
        LET x == RANGES[i]
        IN  (IsBareRange(x) \/ IsPlainInterval(x)) /\ Lower(x) > Upper(x) =>
                /\ ~StoppedAt(i)
                /\ Segment(i) = <<>>
                /\ ErrLines(i) = <<>>
                /\ (i <= Len(returned) => returned[i] = 0)

\* C5: without --hosts-only a valid CIDR expression addr/p of version v
\* prints base, base + 1, ..., base + 2^(bits(v) - p) - 1, base being addr
\* with its low bits(v) - p bits cleared, and returns 0.
C5_CidrEnumeratesBlock ==
    \A i \in 1 .. Len(RANGES) :
        LET x == RANGES[i]
        IN  ~hosts_only /\ IsValidCidr(x) =>
                /\ ~StoppedAt(i)
                /\ ErrLines(i) = <<>>
                /\ i <= Len(returned) =>
                      /\ returned[i] = 0
                      /\ Len(Segment(i)) = CidrCount(x)
                      /\ Segment(i)
                           = Ascending(i, CidrVersion(x), CidrBase(x),
                                       CidrBase(x) + CidrCount(x) - 1,
                                       CidrZoneText(x))

C5_Witness ==
    /\ pc = "exit"
    /\ ~hosts_only
    /\ Len(RANGES) = 1
    /\ IsValidCidr(RANGES[1])
    /\ CidrVersion(RANGES[1]) = 6
    /\ CidrBase(RANGES[1]) # RANGES[1][1].val
    /\ Len(stdout) = 4
    /\ returned = <<0>>

\* C6: for an IPv4 CIDR expression --hosts-only prints the unfiltered
\* sequence without its first and its last address when the prefix length
\* is at most V4Bits - 2 (30), and the unfiltered sequence itself when it
\* is V4Bits - 1 or V4Bits (31 or 32).
C6_V4HostsOnly ==
    HostsOnlyPair /\ IsValidCidr(RANGES[1]) /\ CidrVersion(RANGES[1]) = 4 =>
        /\ BothSucceeded
        /\ Filtered = IF CidrPrefix(RANGES[1]) <= V4Bits - 2
                      THEN SubSeq(Unfiltered, 2, Len(Unfiltered) - 1)
                      ELSE Unfiltered

C6_Witness ==
    /\ HostsOnlyPair
    /\ IsValidCidr(RANGES[1])
    /\ CidrVersion(RANGES[1]) = 4
    /\ CidrPrefix(RANGES[1]) <= V4Bits - 2
    /\ Len(Unfiltered) >= 4
    /\ Len(Filtered) = Len(Unfiltered) - 2

\* C7 as claimed: for an IPv6 CIDR expression --hosts-only prints the
\* unfiltered sequence without its first address for every prefix length
\* below V6Bits (128), and the unfiltered sequence itself at V6Bits.
C7_V6HostsOnlyAsClaimed ==
    HostsOnlyPair /\ IsValidCidr(RANGES[1]) /\ CidrVersion(RANGES[1]) = 6 =>
        /\ BothSucceeded
        /\ Filtered = IF CidrPrefix(RANGES[1]) < V6Bits
                      THEN Tail(Unfiltered)
                      ELSE Unfiltered

\* C7 as amended: for an IPv6 CIDR expression --hosts-only prints the
\* unfiltered sequence without its first address for every prefix length
\* up to V6Bits - 2 (126), and the unfiltered sequence itself at
\* V6Bits - 1 and V6Bits (127 and 128).
C7_V6HostsOnly ==
    HostsOnlyPair /\ IsValidCidr(RANGES[1]) /\ CidrVersion(RANGES[1]) = 6 =>
        /\ BothSucceeded
        /\ Filtered = IF CidrPrefix(RANGES[1]) <= V6Bits - 2
                      THEN Tail(Unfiltered)
                      ELSE Unfiltered

C7_Witness ==
    /\ HostsOnlyPair
    /\ IsValidCidr(RANGES[1])
    /\ CidrVersion(RANGES[1]) = 6
    /\ CidrPrefix(RANGES[1]) <= V6Bits - 2
    /\ Len(Unfiltered) >= 4
    /\ Len(Filtered) = Len(Unfiltered) - 1
    /\ Filtered[Len(Filtered)] = Unfiltered[Len(Unfiltered)]

\* C8: for a CIDR block of exactly two addresses (prefix length V4Bits - 1
\* or V6Bits - 1) the output with --hosts-only equals the output without
\* it: both addresses are printed.
C8_TwoAddressBlock ==
    /\ HostsOnlyPair
    /\ IsValidCidr(RANGES[1])
    /\ CidrPrefix(RANGES[1]) = CidrBits(RANGES[1]) - 1
    =>  /\ BothSucceeded
        /\ Filtered = Unfiltered
        /\ Len(Filtered) = 2

C8_Witness ==
    /\ HostsOnlyPair
    /\ hosts_only
    /\ IsValidCidr(RANGES[1])
    /\ CidrVersion(RANGES[1]) = 6
    /\ CidrPrefix(RANGES[1]) = V6Bits - 1
    /\ Len(stdout) = 2
    /\ stdout = prev.stdout

\* the first run was given one bracketed interval, the second run the bare
\* range over the interval's inclusive bounds
IntervalBarePair ==
    /\ prev # NoRun
    /\ Terminated
    /\ Len(prev.RANGES) = 1
    /\ Len(RANGES) = 1
    /\ prev.hosts_only = hosts_only
    /\ RANGES[1] \in BareForms(prev.RANGES[1])

\* C9: '[a,b]' behaves as the bare range 'a..b', '(a,b]' as 'a+1..b',
\* '[a,b)' as 'a..b-1' and '(a,b)' as 'a+1..b-1': the same lines are
\* printed and the run ends the same way.
C9_IntervalAsBareRange ==
    IntervalBarePair =>
        /\ stdout = prev.stdout
        /\ returned = prev.returned
        /\ exc = prev.exc
        /\ exit_status = prev.exit_status

C9_Witness ==
    /\ IntervalBarePair
    /\ pc = "exit"
    /\ prev.RANGES[1][1].t = "("
    /\ prev.RANGES[1][Len(prev.RANGES[1])].t = ")"
    /\ Len(stdout) = 2
    /\ stdout = prev.stdout

\* the first run was given one expression in reversed brackets, the second
\* run the same text with parentheses in their place
ReversedParenPair ==
    /\ prev # NoRun
    /\ Terminated
    /\ Len(prev.RANGES) = 1
    /\ Len(RANGES) = 1
    /\ prev.hosts_only = hosts_only
    /\ RANGES[1] # prev.RANGES[1]
    /\ RANGES[1] = ParenForm(prev.RANGES[1])

\* C10: ']x]' gives the same result as '(x]', '[x[' as '[x)' and ']x[' as
\* '(x)', for every interior x: the same lines, errors, return value and
\* end of the run, and the same tuple from parse_interval.
C10_ReversedBrackets ==
    ReversedParenPair =>
        /\ stdout = prev.stdout
        /\ stderr = prev.stderr
        /\ returned = prev.returned
        /\ exc = prev.exc
        /\ exit_status = prev.exit_status
        /\ ~InCidrForm(RANGES[1]) =>
              parse_interval(RANGES[1]) = parse_interval(prev.RANGES[1])

C10_Witness ==
    /\ ReversedParenPair
    /\ pc = "exit"
    /\ prev.RANGES[1][1].t = "]"
    /\ prev.RANGES[1][Len(prev.RANGES[1])].t = "["
    /\ RANGES[1][1].t = "("
    /\ Len(stdout) = 2
    /\ stdout = prev.stdout

\* the expression the for loop passes as argument i
Expr(i) == strip(RANGES[i])

\* the text between the brackets of an interval, the text itself otherwise
Interior(x) ==
    IF InIntervalForm(x) THEN strip(slice(x, 1, Len(x) - 1)) ELSE x

\* the address tokens of a bare or bracketed range
Tokens(x) == split(Interior(x), <<>>, <<>>)

\* a bare or bracketed range of two tokens
IsTwoTokenRange(x) == ~InCidrForm(x) /\ Len(Tokens(x)) = 2

\* expression i printed nothing and was recorded as failed: print_ip_range
\* returned 1 for it and the run went on
FailedCleanly(i) ==
    /\ Segment(i) = <<>>
    /\ ~StoppedAt(i)
    /\ (i <= Len(returned) => returned[i] = 1)

\* C11: in a bare or bracketed range of two tokens, a zone on one token
\* only, or two zones that differ, make the expression fail: nothing is
\* printed and the expression is recorded as failed; when the two zones are
\* the same, that zone is the zone of the range.
C11_ZoneConsistency ==
    \A i \in 1 .. Len(RANGES) :
        IsTwoTokenRange(Expr(i)) =>
            LET t == Tokens(Expr(i))
            IN  IF ZoneOf(t[1]) # ZoneOf(t[2])
                THEN /\ FailedCleanly(i)
                     /\ (i <= Len(returned) => ErrLines(i) # <<>>)
                ELSE /\ parse_start_end(Interior(Expr(i))).zone_id = ZoneOf(t[1])
                     /\ \A k \in 1 .. Len(Segment(i)) :
                           Segment(i)[k].zone = ZoneOf(t[1])

\* every token of the range is an IPv4 address followed by the same zone
IsZonedV4Range(x) ==
    /\ ~InCidrForm(x)
    /\ Len(Tokens(x)) \in {1, 2}
    /\ \A k \in 1 .. Len(Tokens(x)) :
          /\ ZoneOf(Tokens(x)[k]) # <<>>
          /\ ZoneOf(Tokens(x)[k]) = ZoneOf(Tokens(x)[1])
          /\ ip_address(StripZone(Tokens(x)[k])).ok
          /\ ip_address(StripZone(Tokens(x)[k])).addr.ver = 4

\* ADDR%ZONE/PREFIX with an IPv4 address and a prefix length of IPv4
IsZonedV4Cidr(x) ==
    /\ Len(x) = 4
    /\ x[1].t = "addr" /\ x[1].ver = 4 /\ x[2].t = "%"
    /\ x[3].t = "/" /\ x[4].t = "num" /\ x[4].val <= V4Bits

\* C12: a zone with IPv4 is always rejected: a bare or bracketed range of
\* IPv4 addresses with a zone, and a CIDR expression with a zone whose
\* network is IPv4, print nothing and are recorded as failed.
C12_ZoneWithV4Rejected ==
    \A i \in 1 .. Len(RANGES) :
        IsZonedV4Range(Expr(i)) \/ IsZonedV4Cidr(Expr(i)) =>
            /\ FailedCleanly(i)
            /\ (i <= Len(returned) => ErrLines(i) # <<>>)

\* C13: an expression that failed has written exactly one line to standard
\* error, whatever the failure, and an expression that succeeded none.
C13_OneErrorLine ==
    \A i \in 1 .. Len(RANGES) :
        /\ (i <= Len(returned) /\ returned[i] = 1 => Len(ErrLines(i)) = 1)
        /\ (i <= Len(returned) /\ returned[i] = 0 => ErrLines(i) = <<>>)
        /\ (StoppedAt(i) /\ exc = "ValueError" => Len(ErrLines(i)) = 1)

\* an expression print_ip_range gives to parse_start_end as it is
IsBareForm(x) == ~InCidrForm(x) /\ ~InIntervalForm(x)

\* expression i failed with the one message msg
FailedWith(i, msg) ==
    /\ FailedCleanly(i)
    /\ (i <= Len(returned) => ErrLines(i) = <<[expr |-> i, msg |-> msg]>>)

\* a token that is an address, an IPv6 address also with a zone
IsValidToken(tok) ==
    /\ ip_address(StripZone(tok)).ok
    /\ (HasZone(tok) => ip_address(StripZone(tok)).addr.ver = 6)

\* C14: the number of tokens of a bare expression decides its outcome: no
\* token and more than two tokens are failures with their own message, a
\* single valid address is start and end and is the one line printed, and
\* two tokens are start and end.
C14_TokenCount ==
    \A i \in 1 .. Len(RANGES) :
        LET x == Expr(i)
            t == Tokens(x)
            p == parse_start_end(x)
        IN  IsBareForm(x) =>
              /\ Len(t) = 0 => FailedWith(i, "found no addresses")
              /\ Len(t) > 2 => FailedWith(i, "found more than two addresses")
              /\ Len(t) = 1 /\ IsValidToken(t[1]) =>
                    /\ p.start = ip_address(StripZone(t[1])).addr
                    /\ p.end = p.start
                    /\ ErrLines(i) = <<>>
                    /\ (i <= Len(returned) => returned[i] = 0)
                    /\ (i <= Len(returned) \/ StoppedAt(i) =>
                          Segment(i) = <<Line(i, p.start.ver, p.start.val,
                                              ZoneOf(t[1]))>>)
              /\ Len(t) = 2 =>
                    /\ p.start = ip_address(StripZone(t[1])).addr
                    /\ p.end = ip_address(StripZone(t[2])).addr
                    /\ \A k \in 1 .. Len(Segment(i)) :
                          /\ Segment(i)[k].addr.val >= p.start.val
                          /\ Segment(i)[k].addr.val <= p.end.val
                    /\ (Segment(i) # <<>> => Segment(i)[1].addr = p.start)

C14_Witness ==
    /\ pc = "exit"
    /\ Len(RANGES) = 1
    /\ Len(RANGES[1]) = 1
    /\ RANGES[1][1].t = "addr"
    /\ called = <<"parse_start_end">>
    /\ stdout = <<Line(1, RANGES[1][1].ver, RANGES[1][1].val, <<>>)>>
    /\ returned = <<0>>

\* a bare or bracketed range of two tokens that are addresses, one of them
\* IPv4 and the other IPv6
IsMixedVersionRange(x) ==
    /\ IsTwoTokenRange(x)
    /\ ZoneOf(Tokens(x)[1]) = ZoneOf(Tokens(x)[2])
    /\ ip_address(StripZone(Tokens(x)[1])).ok
    /\ ip_address(StripZone(Tokens(x)[2])).ok
    /\ ip_address(StripZone(Tokens(x)[1])).addr.ver
         # ip_address(StripZone(Tokens(x)[2])).addr.ver

\* C15: a bare or bracketed range of an IPv4 and an IPv6 address fails with
\* the version-mismatch message: nothing is printed, the expression is
\* recorded as failed, and print_start_end is never given addresses of two
\* versions to compare.
C15_VersionMismatch ==
    /\ \A i \in 1 .. Len(RANGES) :
          IsMixedVersionRange(Expr(i)) =>
              FailedWith(i, "start and end addresses must be of same IP version")
    /\ (pc = "print_start_end" =>
          start.ver = end.ver /\ address.ver = end.ver)

\* the expression contains '/'
ContainsSlash(x) == \E k \in 1 .. Len(x) : x[k].t = "/"

\* longer than one character, the first character one of '[', ']', '(' and
\* the last one of '[', ']', ')'
IsBracketDelimited(x) ==
    /\ Len(x) > 1
    /\ x[1].t \in {"[", "]", "("}
    /\ x[Len(x)].t \in {"[", "]", ")"}

\* the parser the precedence names for expression x
Route(x) ==
    IF ContainsSlash(x) THEN "print_cidr"
    ELSE IF IsBracketDelimited(x) THEN "parse_interval"
    ELSE "parse_start_end"

\* C16: every expression is given to exactly one parser: print_cidr when it
\* contains '/', bracket-delimited or not; else parse_interval when it is
\* longer than one character and bracket-delimited; else parse_start_end.
C16_Routing ==
    /\ Len(called) = (IF pc \in {"for", "exit"} THEN idx ELSE idx + 1)
    /\ \A i \in 1 .. Len(called) : called[i] = Route(Expr(i))

C16_Witness ==
    /\ pc = "exit"
    /\ Len(RANGES) = 1
    /\ IsBracketDelimited(RANGES[1])
    /\ ContainsSlash(RANGES[1])
    /\ called = <<"print_cidr">>
    /\ stderr = <<[expr |-> 1, msg |-> "cannot parse CIDR"]>>
    /\ returned = <<1>>

\* the zone suffix an expression supplies: the text from the first '%' to
\* the last '/' of a CIDR expression, to the end of the first token of a
\* range; empty when there is no '%'
SuppliedZone(x) ==
    IF ContainsSlash(x) THEN CidrZone(x)
    ELSE IF Tokens(x) = <<>> THEN <<>>
    ELSE ZoneOf(Tokens(x)[1])

\* C17: every line printed for an expression is the address followed by the
\* zone suffix the expression supplies, and by nothing when it supplies
\* none; all lines of one expression carry the same suffix.
C17_ZoneSuffix ==
    \A k \in 1 .. Len(stdout) :
        stdout[k].zone = SuppliedZone(Expr(stdout[k].expr))

C17_Witness ==
    /\ pc = "exit"
    /\ called = <<"parse_interval">>
    /\ Len(stdout) = 2
    /\ stdout[1].zone = <<Zone(1)>>
    /\ stdout[2].zone = <<Zone(1)>>
    /\ returned = <<0>>

\* C18: for a bare or bracketed expression the run with --hosts-only and
\* the run without it print the same lines and return the same status.
C18_HostsOnlyRangesUnaffected ==
    HostsOnlyPair /\ ~ContainsSlash(Expr(1)) =>
        /\ stdout = prev.stdout
        /\ returned = prev.returned
        /\ stderr = prev.stderr
        /\ exc = prev.exc
        /\ exit_status = prev.exit_status

C18_Witness ==
    /\ HostsOnlyPair
    /\ hosts_only
    /\ pc = "exit"
    /\ called = <<"parse_interval">>
    /\ Len(stdout) >= 2
    /\ stdout = prev.stdout
    /\ returned = <<0>>

\* C19: the expressions are processed in input order: in standard output
\* every line of expression i comes before every line of expression j when
\* i < j, and each line is an address of the expression it was printed for.
C19_InputOrder ==
    /\ \A j, k \in 1 .. Len(stdout) :
          j < k => stdout[j].expr <= stdout[k].expr
    /\ \A k \in 1 .. Len(stdout) :
          /\ stdout[k].expr <= idx + 1
          /\ \E n \in 1 .. Len(RANGES[stdout[k].expr]) :
                /\ RANGES[stdout[k].expr][n].t = "addr"
                /\ RANGES[stdout[k].expr][n].ver = stdout[k].addr.ver

C19_Witness ==
    /\ pc = "exit"
    /\ Len(RANGES) = 2
    /\ Len(stdout) = 4
    /\ stdout[2].expr = 1
    /\ stdout[3].expr = 2
    /\ stdout[2].addr.ver # stdout[3].addr.ver

\* C20: address arithmetic never wraps around: start, end and address are
\* addresses of their version, the lines of one expression ascend by one as
\* integers, every line of a range lies between the bounds the expression
\* denotes as integers, and an interval whose exclusive start is the last
\* address or whose exclusive end is address 0 ends in an exception with
\* nothing printed.
C20_NoWrapAround ==
    /\ \A a \in {start, end, address} : a.ver # 0 => a.val \in Values(a.ver)
    /\ \A k \in 1 .. Len(stdout) - 1 :
          stdout[k].expr = stdout[k + 1].expr =>
              stdout[k + 1].addr.val = stdout[k].addr.val + 1
    /\ \A k \in 1 .. Len(stdout) :
          /\ stdout[k].addr.val \in Values(stdout[k].addr.ver)
          /\ LET x == RANGES[stdout[k].expr]
             IN  IsBareRange(x) \/ IsPlainInterval(x) =>
                    /\ stdout[k].addr.val >= Lower(x)
                    /\ stdout[k].addr.val <= Upper(x)
    /\ \A i \in 1 .. Len(called) :
          LET x == RANGES[i]
          IN  /\ IsPlainInterval(x)
              /\ (Lower(x) > ALL_ONES(x[2].ver) \/ Upper(x) < 0)
              =>  /\ StoppedAt(i)
                  /\ exc = "AddressValueError"
                  /\ Segment(i) = <<>>

C20_Witness ==
    /\ pc = "traceback"
    /\ exc = "AddressValueError"
    /\ Len(stdout) >= 2
    /\ stdout[Len(stdout)].addr = IP(4, ALL_ONES(4))
    /\ address = IP(4, ALL_ONES(4))

\* the address the enumeration is at: the next one to be printed
CurrentAddress ==
    IF pc = "print_cidr" THEN IP(addresses.ver, addresses.lo) ELSE address

\* what has been printed for the expression being enumerated is the run of
\* n addresses that ends just before the current address
PrintedUpToCurrent ==
    pc \in {"print_cidr", "print_start_end"} =>
        Segment(idx + 1)
          = Ascending(idx + 1, CurrentAddress.ver,
                      CurrentAddress.val - Len(Segment(idx + 1)),
                      CurrentAddress.val - 1, zone_id)

\* a step that writes to standard output writes one line, the current
\* address, and only then is the next address computed
StreamStep ==
    /\ (stdout' # stdout /\ stdout' # <<>>) =>
          /\ pc \in {"print_cidr", "print_start_end"}
          /\ stdout' = Append(stdout, Line(idx + 1, CurrentAddress.ver,
                                           CurrentAddress.val, zone_id))
          /\ (pc' = pc => CurrentAddress'.val = CurrentAddress.val + 1)
    /\ PrintedUpToCurrent'
    /\ DOMAIN addresses' = {"ver", "lo", "hi"}
    /\ DOMAIN address' = {"ver", "val"}

\* C21: enumeration is streaming: every address is written before the next
\* one is computed, one line a step, and between two lines the enumerator
\* holds the current address and the bounds only.
C21_Streaming == [][StreamStep]_vars

C21_Witness ==
    /\ pc = "print_cidr"
    /\ Len(Segment(idx + 1)) = 2
    /\ addresses.lo < addresses.hi
    /\ CurrentAddress.val = Segment(idx + 1)[2].addr.val + 1

\* the token without its zone is the text of an address
IsAddressText(tok) == Len(StripZone(tok)) = 1 /\ StripZone(tok)[1].t = "addr"

\* the start and the end token of a range of one or two tokens
StartToken(x) == Tokens(x)[1]

EndToken(x) == Tokens(x)[Len(Tokens(x))]

\* message msg is among the lines expression i wrote to standard error
Reported(i, msg) ==
    \E k \in 1 .. Len(ErrLines(i)) : ErrLines(i)[k].msg = msg

\* C22: parse_start_end called on one or two tokens reports the start
\* address exactly when the start token, its zone removed, is no address,
\* and the end address exactly when the end token is none; both are tried,
\* and in each of these cases the result is a failure.
C22_StartEndDiagnostics ==
    \A i \in 1 .. Len(called) :
        LET x == Expr(i)
        IN  called[i] # "print_cidr" /\ Len(Tokens(x)) \in {1, 2} =>
              /\ Reported(i, "cannot parse start address")
                    <=> ~IsAddressText(StartToken(x))
              /\ Reported(i, "cannot parse end address")
                    <=> ~IsAddressText(EndToken(x))
              /\ ~IsAddressText(StartToken(x)) \/ ~IsAddressText(EndToken(x)) =>
                    /\ parse_start_end(Interior(x)).is_ok = "False"
                    /\ Segment(i) = <<>>
                    /\ (i <= Len(returned) => returned[i] = 1)

C22_Witness ==
    /\ pc = "exit"
    /\ called = <<"parse_start_end">>
    /\ Len(Tokens(Expr(1))) = 2
    /\ stderr = <<[expr |-> 1, msg |-> "cannot parse start address"],
                  [expr |-> 1, msg |-> "cannot parse end address"]>>
    /\ returned = <<1>>

\* the expression contains '%'
ContainsPercent(x) == \E k \in 1 .. Len(x) : x[k].t = "%"

\* the position of the first '%'
FirstPercent(x) ==
    CHOOSE k \in 1 .. Len(x) :
        x[k].t = "%" /\ \A j \in 1 .. (k - 1) : x[j].t # "%"

\* the positions of the '/' that follow the first '%'
SlashesAfterPercent(x) ==
    {k \in (FirstPercent(x) + 1) .. Len(x) : x[k].t = "/"}

LastSlash(x) ==
    CHOOSE k \in SlashesAfterPercent(x) : \A j \in SlashesAfterPercent(x) : j <= k

\* the text from the first '%' up to, not including, the last '/' after it
ZoneText(x) == SubSeq(x, FirstPercent(x), LastSlash(x) - 1)

\* the expression with that text taken out
WithoutZoneText(x) ==
    SubSeq(x, 1, FirstPercent(x) - 1) \o SubSeq(x, LastSlash(x), Len(x))

\* C23: in a CIDR expression with '%' the zone is the text from the first
\* '%' up to the last '/' after it: every printed line carries it unchanged,
\* and address and prefix length are parsed from the expression without it;
\* when no '/' follows the '%' the expression fails and prints nothing.
C23_CidrZone ==
    \A i \in 1 .. Len(called) :
        LET x == Expr(i)
        IN  called[i] = "print_cidr" /\ ContainsPercent(x) =>
              IF SlashesAfterPercent(x) = {}
              THEN FailedWith(i, "cannot parse CIDR with zone index")
              ELSE /\ \A k \in 1 .. Len(Segment(i)) :
                         Segment(i)[k].zone = ZoneText(x)
                   /\ (IsValidCidr(WithoutZoneText(x))
                       /\ CidrVersion(WithoutZoneText(x)) = 6 =>
                          /\ ErrLines(i) = <<>>
                          /\ ~StoppedAt(i)
                          /\ (i <= Len(returned) =>
                                /\ returned[i] = 0
                                /\ Segment(i) # <<>>
                                /\ \A k \in 1 .. Len(Segment(i)) :
                                      /\ Segment(i)[k].addr.ver = 6
                                      /\ Segment(i)[k].addr.val
                                           >= CidrBase(WithoutZoneText(x))
                                      /\ Segment(i)[k].addr.val
                                           < CidrBase(WithoutZoneText(x))
                                             + CidrCount(WithoutZoneText(x))))

C23_Witness ==
    /\ pc = "exit"
    /\ called = <<"print_cidr">>
    /\ ContainsPercent(Expr(1))
    /\ Cardinality(SlashesAfterPercent(Expr(1))) = 2
    /\ Len(stdout) = 2
    /\ stdout[1].zone = ZoneText(Expr(1))
    /\ Len(stdout[2].zone) = 3
    /\ returned = <<0>>

\* C24: parse_interval returns a tuple of four values on every path, and
\* print_ip_range returns 1 for a bracketed interval whose interior does
\* not parse: the run is not ended by an exception there.
C24_IntervalResultShape ==
    \A i \in 1 .. Len(called) :
        called[i] = "parse_interval" =>
            /\ parse_interval(Expr(i)).n = 4
            /\ (parse_start_end(Interior(Expr(i))).is_ok # "True" =>
                  /\ ~StoppedAt(i)
                  /\ (i <= Len(returned) => returned[i] = 1))

\* C25: an expression is parsed before any of its addresses is printed: an
\* expression that failed has written no line to standard output, and an
\* expression that has written a line ends in success, it returns 0.
C25_ParseBeforePrint ==
    \A i \in 1 .. Len(called) :
        /\ (ErrLines(i) # <<>> => Segment(i) = <<>>)
        /\ (i <= Len(returned) /\ returned[i] # 0 => Segment(i) = <<>>)
        /\ (Segment(i) # <<>> =>
              /\ ~StoppedAt(i)
              /\ (i <= Len(returned) => returned[i] = 0))

\* network i of the run of net2ips.py does not parse as CIDR
FailsAsNetwork(i) ==
    ~ip_network(WithoutScope(strip(net2ips.networks[i]))).ok

\* the loop of net2ips.py has come to network i
CameTo(i) ==
    \/ net2ips.pos >= i
    \/ net2ips.pos + 1 = i /\ net2ips.pc \in {"print", "traceback"}

\* C26: in net2ips a network that does not parse as CIDR, at any position
\* and with or without --hosts-only, writes one error line, prints no
\* address, makes the exit status 1 and does not stop the run: the networks
\* after it are processed.
C26_Net2ipsFailureIsLocal ==
    \A i \in 1 .. Len(net2ips.networks) :
        FailsAsNetwork(i) /\ CameTo(i) =>
            /\ Len(SelectSeq(net2ips.stderr, LAMBDA l : l.net = i)) = 1
            /\ SelectSeq(net2ips.stdout, LAMBDA l : l.net = i) = <<>>
            /\ ~(net2ips.pc = "traceback" /\ net2ips.pos + 1 = i)
            /\ (net2ips.pc = "exit" => net2ips.exit_status = 1)

====
